---- MODULE Spec2Model ----
(***************************************************************************)
(* Webex MCP server (src/main.py): the WebexAPI client, the lazily created *)
(* global client handle and the sixteen tools of the catalog, as a state   *)
(* machine over tool invocations that suspend at their outbound HTTP calls.*)
(*                                                                         *)
(* Python values are tagged records; Python strings are sequences of       *)
(* tokens, so that upper(), lstrip(), json.loads and json.dumps are        *)
(* computed and not assumed.                                               *)
(***************************************************************************)
EXTENDS Integers, Sequences, FiniteSets, TLC

(* ------------------------------ bounds ------------------------------ *)
\* Concurrent invocation slots of the hosting runtime.
NProcs == 2
\* Most optional arguments one invocation supplies (is not None).
MaxSupplied == 3
\* Longest participant-id list handed to remove_participants.
MaxIds == 3

(* --------------------------- Python values --------------------------- *)
None == [t |-> "none"]
PyStr(s) == [t |-> "str", v |-> s]
PyBool(b) == [t |-> "bool", v |-> b]
PyInt(n) == [t |-> "int", v |-> n]
PyList(s) == [t |-> "list", v |-> s]
PyDict(f) == [t |-> "dict", v |-> f]
EmptyDict == PyDict(<<>>)

IsNone(x) == x.t = "none"

\* bool(x) of Python, as the `if x:` tests of the tools apply it.
Truthy(x) ==
    CASE x.t = "none" -> FALSE
      [] x.t = "str"  -> Len(x.v) > 0
      [] x.t = "bool" -> x.v
      [] x.t = "int"  -> x.v # 0
      [] x.t = "list" -> Len(x.v) > 0
      [] x.t = "dict" -> DOMAIN x.v # {}

\* any([...]) of Python.
PyAny(xs) == \E i \in DOMAIN xs : Truthy(xs[i])

Last(seq) == seq[Len(seq)]

\* d[key] = val
DictSet(d, key, val) == PyDict((key :> val) @@ d.v)

\* `if cond: d[key] = val`
SetIf(cond, d, key, val) == IF cond THEN DictSet(d, key, val) ELSE d

(* ------------------------------ strings ------------------------------ *)
UpperChar(c) ==
    CASE c = "g" -> "G" [] c = "e" -> "E" [] c = "t" -> "T"
      [] c = "p" -> "P" [] c = "o" -> "O" [] c = "s" -> "S"
      [] c = "u" -> "U" [] c = "d" -> "D" [] c = "l" -> "L"
      [] c = "a" -> "A" [] c = "c" -> "C" [] c = "h" -> "H"
      [] OTHER -> c

\* str.upper()
Upper(s) == [i \in 1..Len(s) |-> UpperChar(s[i])]

RECURSIVE LStrip(_)
\* str.lstrip('/')
LStrip(s) == IF s # <<>> /\ Head(s) = "/" THEN LStrip(Tail(s)) ELSE s

(* ------------------------------- JSON ------------------------------- *)
\* The scalar tokens of the JSON texts of the model: string literals.
JsonAtoms == {"p1", "p2", "u1"}

\* The element lists of a JSON array text's inside: atoms separated by ",".
ElementsOk(inner) ==
    \/ inner = <<>>
    \/ /\ Len(inner) % 2 = 1
       /\ \A i \in 1..Len(inner) :
            IF i % 2 = 1 THEN inner[i] \in JsonAtoms ELSE inner[i] = ","

Elements(inner) ==
    [i \in 1..((Len(inner) + 1) \div 2) |-> PyStr(<<inner[2 * i - 1]>>)]

\* json.loads(text): [ok |-> TRUE, v |-> value], or [ok |-> FALSE] for
\* json.JSONDecodeError.
JsonLoads(text) ==
    IF Len(text) = 0 THEN [ok |-> FALSE]
    ELSE IF Len(text) = 1 /\ text[1] = "7" THEN [ok |-> TRUE, v |-> PyInt(7)]
    ELSE IF Len(text) = 1 /\ text[1] \in JsonAtoms
         THEN [ok |-> TRUE, v |-> PyStr(text)]
    ELSE IF /\ Len(text) >= 2
            /\ text[1] = "[" /\ text[Len(text)] = "]"
            /\ ElementsOk(SubSeq(text, 2, Len(text) - 1))
         THEN [ok |-> TRUE,
               v |-> PyList(Elements(SubSeq(text, 2, Len(text) - 1)))]
    ELSE [ok |-> FALSE]

RECURSIVE DumpItems(_)
DumpItems(items) ==
    IF items = <<>> THEN <<>>
    ELSE <<"\n  ">> \o items[1].v
         \o (IF Len(items) > 1 THEN <<",">> ELSE <<>>)
         \o DumpItems(Tail(items))

\* json.dumps(value, indent=2) of the values _make_request returns: the
\* empty mapping, a list of string literals, or a scalar.
JsonDumps(value) ==
    CASE value.t = "dict" -> PyStr(<<"{}">>)
      [] value.t = "list" ->
            IF value.v = <<>> THEN PyStr(<<"[]">>)
            ELSE PyStr(<<"[">> \o DumpItems(value.v) \o <<"\n", "]">>)
      [] value.t = "int" -> PyStr(<<"7">>)
      [] OTHER -> PyStr(value.v)

RECURSIVE JoinIds(_)
JoinIds(ids) ==
    IF ids = <<>> THEN <<>>
    ELSE IF Len(ids) = 1 THEN <<ids[1]>>
    ELSE <<ids[1], ",">> \o JoinIds(Tail(ids))

\* The JSON text of an array of identifiers, as a caller writes it.
ArrayText(ids) == <<"[">> \o JoinIds(ids) \o <<"]">>

(* ----------------------------- WebexAPI ----------------------------- *)
\* WebexAPI.__init__(access_token)
WebexAPI(access_token) ==
    [access_token |-> access_token,
     base_url |-> <<"https://webexapis.com/v1">>,
     headers |-> [Authorization |-> <<"Bearer ">> \o access_token.v,
                  ContentType |-> <<"application/json">>]]

Exc(type, msg) == [t |-> "exc", type |-> type, msg |-> msg]

GET == <<"G", "E", "T">>
POST == <<"P", "O", "S", "T">>
PUT == <<"P", "U", "T">>
DELETE == <<"D", "E", "L", "E", "T", "E">>

\* The branch of the if/elif chain on method.upper() that issues a call.
Supported(method) == Upper(method) \in {GET, POST, PUT, DELETE}

\* _make_request comparing the method as given, without upper().
make_request_send_exact(self, method, endpoint, params, data) ==
    LET url == self.base_url \o <<"/">> \o LStrip(endpoint)
        call(verb, q, j) ==
            [k |-> "call",
             call |-> [verb |-> verb, url |-> url, headers |-> self.headers,
                       params |-> q, json |-> j]]
    IN  CASE method = <<"G", "E", "T">> -> call(method, params, None)
          [] method = <<"P", "O", "S", "T">> -> call(method, None, data)
          [] method = <<"P", "U", "T">> -> call(method, None, data)
          [] method = <<"D", "E", "L", "E", "T", "E">> -> call(method, None, None)
          [] OTHER ->
                [k |-> "raise",
                 exc |-> Exc("Exception",
                             <<"Request failed: ", "Unsupported HTTP method: ">>
                                 \o method)]

\* _make_request up to its await: the outbound call client.get / post / put
\* / delete is handed, or the ValueError of the else branch as the
\* `except Exception` clause re-raises it.
make_request_send(self, method, endpoint, params, data) ==
    LET url == self.base_url \o <<"/">> \o LStrip(endpoint)
        call(verb, q, j) ==
            [k |-> "call",
             call |-> [verb |-> verb, url |-> url, headers |-> self.headers,
                       params |-> q, json |-> j]]
    IN  CASE Upper(method) = GET    -> call(GET, params, None)
          [] Upper(method) = POST   -> call(POST, None, data)
          [] Upper(method) = PUT    -> call(PUT, None, data)
          [] Upper(method) = DELETE -> call(DELETE, None, None)
          [] OTHER ->
                [k |-> "raise",
                 exc |-> Exc("Exception",
                             <<"Request failed: ", "Unsupported HTTP method: ">>
                                 \o method)]

StatusText(status) ==
    CASE status = 404 -> "404 Not Found"
      [] status = 500 -> "500 Internal Server Error"
      [] status = 200 -> "200 OK"
      [] status = 204 -> "204 No Content"

\* response.raise_for_status(): TRUE when it raises httpx.HTTPStatusError.
RaisesForStatus(status) == ~(200 <= status /\ status <= 299)

\* _make_request without response.raise_for_status().
make_request_result_unchecked(resp) ==
    IF resp.k = "error"
    THEN [k |-> "raise",
          exc |-> Exc("Exception", <<"API request failed: ", resp.name>>)]
    ELSE IF resp.content = <<>> THEN [k |-> "value", v |-> EmptyDict]
    ELSE IF JsonLoads(resp.content).ok
    THEN [k |-> "value", v |-> JsonLoads(resp.content).v]
    ELSE [k |-> "raise",
          exc |-> Exc("Exception", <<"Request failed: ", "Expecting value">>)]

\* _make_request from the answer of the transport on: the value it returns
\* or the exception it raises.
make_request_result(resp) ==
    IF resp.k = "error"
    THEN [k |-> "raise",
          exc |-> Exc("Exception", <<"API request failed: ", resp.name>>)]
    ELSE IF RaisesForStatus(resp.status)
    THEN [k |-> "raise",
          exc |-> Exc("Exception",
                      <<"API request failed: ", StatusText(resp.status)>>)]
    ELSE IF resp.content = <<>> THEN [k |-> "value", v |-> EmptyDict]
    ELSE IF JsonLoads(resp.content).ok
    THEN [k |-> "value", v |-> JsonLoads(resp.content).v]
    ELSE [k |-> "raise",
          exc |-> Exc("Exception", <<"Request failed: ", "Expecting value">>)]

\* What the platform and the transport can answer one call with.
Responses ==
    {[k |-> "response", status |-> 200, content |-> <<"[", "u1", "]">>],
     [k |-> "response", status |-> 200, content |-> <<"<html>">>],
     [k |-> "response", status |-> 204, content |-> <<>>],
     [k |-> "response", status |-> 404, content |-> <<"[", "]">>],
     [k |-> "response", status |-> 500, content |-> <<>>],
     [k |-> "error", name |-> "ReadTimeout"],
     [k |-> "error", name |-> "ConnectError"]}

(* --------------------------- client handle --------------------------- *)
\* get_webex_api without the `is None` test: a new instance every time.
get_webex_api_always(api, insts, env) ==
    IF ~Truthy(env)
    THEN [k |-> "raise",
          exc |-> Exc("ValueError",
              <<"WEBEX_ACCESS_TOKEN environment variable is required">>)]
    ELSE [k |-> "ok", api |-> Len(insts) + 1,
          insts |-> Append(insts, WebexAPI(env))]

\* get_webex_api(): the handle it returns (an index into the instances
\* constructed so far) and the instances after it, or its ValueError.
\* `api` is the module global webex_api, 0 for None; `env` is
\* os.getenv("WEBEX_ACCESS_TOKEN").
get_webex_api(api, insts, env) ==
    IF api = 0
    THEN IF ~Truthy(env)
         THEN [k |-> "raise",
               exc |-> Exc("ValueError",
                   <<"WEBEX_ACCESS_TOKEN environment variable is required">>)]
         ELSE [k |-> "ok", api |-> Len(insts) + 1,
               insts |-> Append(insts, WebexAPI(env))]
    ELSE [k |-> "ok", api |-> api, insts |-> insts]

(* ------------------------------- tools ------------------------------- *)
\* What a tool does between its entry (after get_webex_api) and its first
\* await: it returns a string, raises, or has requests to put to
\* _make_request one after the other.
Ret(v) == [k |-> "ret", v |-> v]
Reqs(seq) == [k |-> "reqs", reqs |-> seq]
Req(method, endpoint, params, data) ==
    [method |-> method, endpoint |-> endpoint, params |-> params, data |-> data]

list_meetings(a) ==
    LET p1 == SetIf(Truthy(a.meetingType), EmptyDict, "meetingType", a.meetingType)
        p2 == SetIf(Truthy(a.state), p1, "state", a.state)
        p3 == SetIf(Truthy(a.scheduledType), p2, "scheduledType", a.scheduledType)
        p4 == SetIf(~IsNone(a.current), p3, "current", a.current)
        p5 == SetIf(Truthy(a.from_date), p4, "from", a.from_date)
        p6 == SetIf(Truthy(a.to_date), p5, "to", a.to_date)
        p7 == SetIf(Truthy(a.max), p6, "max", a.max)
    IN  Reqs(<<Req(GET, <<"/", "meetings">>, p7, None)>>)

get_meeting_details(a) ==
    LET p1 == SetIf(~IsNone(a.current), EmptyDict, "current", a.current)
    IN  Reqs(<<Req(GET, <<"/", "meetings", "/">> \o a.meeting_id.v, p1, None)>>)

get_meeting_transcript(a) ==
    LET p1 == SetIf(Truthy(a.format), EmptyDict, "format", a.format)
    IN  Reqs(<<Req(GET, <<"/", "meetings", "/">> \o a.meeting_id.v
                            \o <<"/", "transcripts">>, p1, None)>>)

get_recording(a) ==
    Reqs(<<Req(GET, <<"/", "recordings", "/">> \o a.recording_id.v, None, None)>>)

list_recordings(a) ==
    LET p1 == SetIf(Truthy(a.meeting_id), EmptyDict, "meetingId", a.meeting_id)
        p2 == SetIf(Truthy(a.from_date), p1, "from", a.from_date)
        p3 == SetIf(Truthy(a.to_date), p2, "to", a.to_date)
        p4 == SetIf(Truthy(a.max), p3, "max", a.max)
    IN  Reqs(<<Req(GET, <<"/", "recordings">>, p4, None)>>)

\* create_meeting going on without the invitees when they do not parse.
create_meeting_unparsed(a) ==
    LET d0 == DictSet(EmptyDict, "title", a.title)
        d1 == SetIf(Truthy(a.agenda), d0, "agenda", a.agenda)
        d2 == SetIf(Truthy(a.password), d1, "password", a.password)
        d3 == SetIf(Truthy(a.start), d2, "start", a.start)
        d4 == SetIf(Truthy(a.end), d3, "end", a.end)
        d5 == SetIf(Truthy(a.timezone), d4, "timezone", a.timezone)
        d6 == SetIf(~IsNone(a.enabledAutoRecordMeeting), d5,
                    "enabledAutoRecordMeeting", a.enabledAutoRecordMeeting)
        d7 == SetIf(~IsNone(a.allowAnyUserToBeCoHost), d6,
                    "allowAnyUserToBeCoHost", a.allowAnyUserToBeCoHost)
    IN  IF Truthy(a.invitees) /\ JsonLoads(a.invitees.v).ok
        THEN Reqs(<<Req(POST, <<"/", "meetings">>, None,
                        DictSet(d7, "invitees", JsonLoads(a.invitees.v).v))>>)
        ELSE Reqs(<<Req(POST, <<"/", "meetings">>, None, d7)>>)

create_meeting(a) ==
    LET d0 == DictSet(EmptyDict, "title", a.title)
        d1 == SetIf(Truthy(a.agenda), d0, "agenda", a.agenda)
        d2 == SetIf(Truthy(a.password), d1, "password", a.password)
        d3 == SetIf(Truthy(a.start), d2, "start", a.start)
        d4 == SetIf(Truthy(a.end), d3, "end", a.end)
        d5 == SetIf(Truthy(a.timezone), d4, "timezone", a.timezone)
        d6 == SetIf(~IsNone(a.enabledAutoRecordMeeting), d5,
                    "enabledAutoRecordMeeting", a.enabledAutoRecordMeeting)
        d7 == SetIf(~IsNone(a.allowAnyUserToBeCoHost), d6,
                    "allowAnyUserToBeCoHost", a.allowAnyUserToBeCoHost)
    IN  IF Truthy(a.invitees)
        THEN IF JsonLoads(a.invitees.v).ok
             THEN Reqs(<<Req(POST, <<"/", "meetings">>, None,
                             DictSet(d7, "invitees", JsonLoads(a.invitees.v).v))>>)
             ELSE Ret(PyStr(<<"Error: Invalid JSON format for invitees">>))
        ELSE Reqs(<<Req(POST, <<"/", "meetings">>, None, d7)>>)

update_meeting(a) ==
    LET d1 == SetIf(Truthy(a.title), EmptyDict, "title", a.title)
        d2 == SetIf(Truthy(a.agenda), d1, "agenda", a.agenda)
        d3 == SetIf(Truthy(a.password), d2, "password", a.password)
        d4 == SetIf(Truthy(a.start), d3, "start", a.start)
        d5 == SetIf(Truthy(a.end), d4, "end", a.end)
        d6 == SetIf(Truthy(a.timezone), d5, "timezone", a.timezone)
    IN  Reqs(<<Req(PUT, <<"/", "meetings", "/">> \o a.meeting_id.v, None, d6)>>)

delete_meeting(a) ==
    LET p1 == SetIf(~IsNone(a.sendEmail), EmptyDict, "sendEmail", a.sendEmail)
    IN  Reqs(<<Req(DELETE, <<"/", "meetings", "/">> \o a.meeting_id.v, p1, None)>>)

add_participants(a) ==
    IF JsonLoads(a.participants.v).ok
    THEN Reqs(<<Req(POST, <<"/", "meetings", "/">> \o a.meeting_id.v
                              \o <<"/", "invitees">>, None,
                    DictSet(EmptyDict, "invitees", JsonLoads(a.participants.v).v))>>)
    ELSE Ret(PyStr(<<"Error: Invalid JSON format for participants">>))

\* remove_participants walking the list from its end.
remove_participants_reversed(a) ==
    LET ids == JsonLoads(a.participant_ids.v)
    IN  IF ~ids.ok
        THEN Ret(PyStr(<<"Error: Invalid JSON format for participant IDs">>))
        ELSE IF ids.v.t = "int"
        THEN [k |-> "raise",
              exc |-> Exc("TypeError", <<"'int' object is not iterable">>)]
        ELSE Reqs([i \in 1..Len(ids.v.v) |->
                    Req(DELETE, <<"/", "meetings", "/">> \o a.meeting_id.v
                                  \o <<"/", "invitees", "/">>
                                  \o ids.v.v[Len(ids.v.v) + 1 - i].v,
                        None, None)])

\* The loop `for participant_id in ids` awaits one DELETE per element, in
\* list order; iterating an int is a TypeError.
remove_participants(a) ==
    LET ids == JsonLoads(a.participant_ids.v)
    IN  IF ~ids.ok
        THEN Ret(PyStr(<<"Error: Invalid JSON format for participant IDs">>))
        ELSE IF ids.v.t = "int"
        THEN [k |-> "raise",
              exc |-> Exc("TypeError", <<"'int' object is not iterable">>)]
        ELSE Reqs([i \in 1..Len(ids.v.v) |->
                    Req(DELETE, <<"/", "meetings", "/">> \o a.meeting_id.v
                                  \o <<"/", "invitees", "/">> \o ids.v.v[i].v,
                        None, None)])

list_participants(a) ==
    LET p1 == SetIf(Truthy(a.joinedBefore), EmptyDict, "joinedBefore", a.joinedBefore)
        p2 == SetIf(Truthy(a.joinedAfter), p1, "joinedAfter", a.joinedAfter)
        p3 == SetIf(Truthy(a.max), p2, "max", a.max)
    IN  Reqs(<<Req(GET, <<"/", "meetings", "/">> \o a.meeting_id.v
                            \o <<"/", "participants">>, p3, None)>>)

list_spaces(a) ==
    LET p1 == SetIf(Truthy(a.teamId), EmptyDict, "teamId", a.teamId)
        p2 == SetIf(Truthy(a.type), p1, "type", a.type)
        p3 == SetIf(Truthy(a.sortBy), p2, "sortBy", a.sortBy)
        p4 == SetIf(Truthy(a.max), p3, "max", a.max)
    IN  Reqs(<<Req(GET, <<"/", "rooms">>, p4, None)>>)

get_messages(a) ==
    LET p0 == DictSet(EmptyDict, "roomId", a.roomId)
        p1 == SetIf(Truthy(a.mentionedPeople), p0, "mentionedPeople", a.mentionedPeople)
        p2 == SetIf(Truthy(a.before), p1, "before", a.before)
        p3 == SetIf(Truthy(a.beforeMessage), p2, "beforeMessage", a.beforeMessage)
        p4 == SetIf(Truthy(a.max), p3, "max", a.max)
    IN  Reqs(<<Req(GET, <<"/", "messages">>, p4, None)>>)

\* send_message validating the content before the destination.
send_message_content_first(a) ==
    LET d1 == SetIf(Truthy(a.roomId), EmptyDict, "roomId", a.roomId)
        d2 == SetIf(Truthy(a.toPersonId), d1, "toPersonId", a.toPersonId)
        d3 == SetIf(Truthy(a.toPersonEmail), d2, "toPersonEmail", a.toPersonEmail)
        d4 == SetIf(Truthy(a.text), d3, "text", a.text)
        d5 == SetIf(Truthy(a.markdown), d4, "markdown", a.markdown)
        d6 == SetIf(Truthy(a.html), d5, "html", a.html)
    IN  IF ~PyAny(<<a.text, a.markdown, a.html>>)
        THEN Ret(PyStr(<<"Error: Must specify text, markdown, or html content">>))
        ELSE IF ~PyAny(<<a.roomId, a.toPersonId, a.toPersonEmail>>)
        THEN Ret(PyStr(<<"Error: Must specify roomId, toPersonId, or toPersonEmail">>))
        ELSE IF Truthy(a.files)
        THEN IF JsonLoads(a.files.v).ok
             THEN Reqs(<<Req(POST, <<"/", "messages">>, None,
                             DictSet(d6, "files", JsonLoads(a.files.v).v))>>)
             ELSE Ret(PyStr(<<"Error: Invalid JSON format for files">>))
        ELSE Reqs(<<Req(POST, <<"/", "messages">>, None, d6)>>)

send_message(a) ==
    LET d1 == SetIf(Truthy(a.roomId), EmptyDict, "roomId", a.roomId)
        d2 == SetIf(Truthy(a.toPersonId), d1, "toPersonId", a.toPersonId)
        d3 == SetIf(Truthy(a.toPersonEmail), d2, "toPersonEmail", a.toPersonEmail)
        d4 == SetIf(Truthy(a.text), d3, "text", a.text)
        d5 == SetIf(Truthy(a.markdown), d4, "markdown", a.markdown)
        d6 == SetIf(Truthy(a.html), d5, "html", a.html)
    IN  IF ~PyAny(<<a.roomId, a.toPersonId, a.toPersonEmail>>)
        THEN Ret(PyStr(<<"Error: Must specify roomId, toPersonId, or toPersonEmail">>))
        ELSE IF ~PyAny(<<a.text, a.markdown, a.html>>)
        THEN Ret(PyStr(<<"Error: Must specify text, markdown, or html content">>))
        ELSE IF Truthy(a.files)
        THEN IF JsonLoads(a.files.v).ok
             THEN Reqs(<<Req(POST, <<"/", "messages">>, None,
                             DictSet(d6, "files", JsonLoads(a.files.v).v))>>)
             ELSE Ret(PyStr(<<"Error: Invalid JSON format for files">>))
        ELSE Reqs(<<Req(POST, <<"/", "messages">>, None, d6)>>)

\* create_space storing description whether supplied or not.
create_space_nulls(a) ==
    LET d0 == DictSet(EmptyDict, "title", a.title)
        d1 == SetIf(Truthy(a.teamId), d0, "teamId", a.teamId)
        d2 == SetIf(Truthy(a.classificationId), d1, "classificationId",
                    a.classificationId)
        d3 == SetIf(~IsNone(a.isLocked), d2, "isLocked", a.isLocked)
        d4 == SetIf(~IsNone(a.isPublic), d3, "isPublic", a.isPublic)
        d5 == DictSet(d4, "description", a.description)
    IN  Reqs(<<Req(POST, <<"/", "rooms">>, None, d5)>>)

create_space(a) ==
    LET d0 == DictSet(EmptyDict, "title", a.title)
        d1 == SetIf(Truthy(a.teamId), d0, "teamId", a.teamId)
        d2 == SetIf(Truthy(a.classificationId), d1, "classificationId",
                    a.classificationId)
        d3 == SetIf(~IsNone(a.isLocked), d2, "isLocked", a.isLocked)
        d4 == SetIf(~IsNone(a.isPublic), d3, "isPublic", a.isPublic)
        d5 == SetIf(Truthy(a.description), d4, "description", a.description)
    IN  Reqs(<<Req(POST, <<"/", "rooms">>, None, d5)>>)

add_member_to_space(a) ==
    LET d0 == DictSet(EmptyDict, "roomId", a.roomId)
        d1 == SetIf(Truthy(a.personId), d0, "personId", a.personId)
        d2 == SetIf(Truthy(a.personEmail), d1, "personEmail", a.personEmail)
        d3 == SetIf(~IsNone(a.isModerator), d2, "isModerator", a.isModerator)
    IN  IF ~PyAny(<<a.personId, a.personEmail>>)
        THEN Ret(PyStr(<<"Error: Must specify personId or personEmail">>))
        ELSE Reqs(<<Req(POST, <<"/", "memberships">>, None, d3)>>)

\* A caller of the client itself: webex._make_request(method, endpoint,
\* params, data).
client_request(a) == Reqs(<<Req(a.method.v, a.endpoint.v, a.params, a.data)>>)

Tools ==
    {"list_meetings", "get_meeting_details", "get_meeting_transcript",
     "get_recording", "list_recordings", "create_meeting", "update_meeting",
     "delete_meeting", "add_participants", "remove_participants",
     "list_participants", "list_spaces", "get_messages", "send_message",
     "create_space", "add_member_to_space"}

\* The synchronous part of each tool, by name; "_make_request" is a direct
\* call of the client.
ToolStart(tool, a) ==
    CASE tool = "list_meetings" -> list_meetings(a)
      [] tool = "get_meeting_details" -> get_meeting_details(a)
      [] tool = "get_meeting_transcript" -> get_meeting_transcript(a)
      [] tool = "get_recording" -> get_recording(a)
      [] tool = "list_recordings" -> list_recordings(a)
      [] tool = "create_meeting" -> create_meeting(a)
      [] tool = "update_meeting" -> update_meeting(a)
      [] tool = "delete_meeting" -> delete_meeting(a)
      [] tool = "add_participants" -> add_participants(a)
      [] tool = "remove_participants" -> remove_participants(a)
      [] tool = "list_participants" -> list_participants(a)
      [] tool = "list_spaces" -> list_spaces(a)
      [] tool = "get_messages" -> get_messages(a)
      [] tool = "send_message" -> send_message(a)
      [] tool = "create_space" -> create_space(a)
      [] tool = "add_member_to_space" -> add_member_to_space(a)
      [] tool = "_make_request" -> client_request(a)

Return(v) == [t |-> "return", v |-> v]
Raise(exc) == [t |-> "raise", exc |-> exc]

\* What a tool returns once its last request has returned `value`.
ToolReturn(tool, a, value) ==
    CASE tool = "delete_meeting" ->
            Return(PyStr(<<"Meeting ">> \o a.meeting_id.v
                             \o <<" deleted successfully">>))
      [] tool = "remove_participants" ->
            Return(PyStr(<<"Participants removed successfully">>))
      [] tool = "_make_request" -> Return(value)
      [] OTHER -> Return(JsonDumps(value))

\* No tool with a handler of its own.
ToolExcept_propagate(tool, exc) == [t |-> "raise", exc |-> exc]

\* What a tool does with an exception _make_request raised: only
\* get_meeting_transcript has an `except Exception`; the
\* `except json.JSONDecodeError` clauses do not match it.
ToolExcept(tool, exc) ==
    IF tool = "get_meeting_transcript"
    THEN Return(PyStr(<<"Transcript not available: ">> \o exc.msg))
    ELSE Raise(exc)

(* ----------------------------- arguments ----------------------------- *)
\* <<parameter, type, required>> of each tool's signature.
ToolParams(tool) ==
    CASE tool = "list_meetings" ->
            {<<"meetingType", "str", FALSE>>, <<"state", "str", FALSE>>,
             <<"scheduledType", "str", FALSE>>, <<"current", "bool", FALSE>>,
             <<"from_date", "str", FALSE>>, <<"to_date", "str", FALSE>>,
             <<"max", "int", FALSE>>}
      [] tool = "get_meeting_details" ->
            {<<"meeting_id", "str", TRUE>>, <<"current", "bool", FALSE>>}
      [] tool = "get_meeting_transcript" ->
            {<<"meeting_id", "str", TRUE>>, <<"format", "str", FALSE>>}
      [] tool = "get_recording" -> {<<"recording_id", "str", TRUE>>}
      [] tool = "list_recordings" ->
            {<<"meeting_id", "str", FALSE>>, <<"from_date", "str", FALSE>>,
             <<"to_date", "str", FALSE>>, <<"max", "int", FALSE>>}
      [] tool = "create_meeting" ->
            {<<"title", "str", TRUE>>, <<"agenda", "str", FALSE>>,
             <<"password", "str", FALSE>>, <<"start", "str", FALSE>>,
             <<"end", "str", FALSE>>, <<"timezone", "str", FALSE>>,
             <<"enabledAutoRecordMeeting", "bool", FALSE>>,
             <<"allowAnyUserToBeCoHost", "bool", FALSE>>,
             <<"invitees", "json", FALSE>>}
      [] tool = "update_meeting" ->
            {<<"meeting_id", "str", TRUE>>, <<"title", "str", FALSE>>,
             <<"agenda", "str", FALSE>>, <<"password", "str", FALSE>>,
             <<"start", "str", FALSE>>, <<"end", "str", FALSE>>,
             <<"timezone", "str", FALSE>>}
      [] tool = "delete_meeting" ->
            {<<"meeting_id", "str", TRUE>>, <<"sendEmail", "bool", FALSE>>}
      [] tool = "add_participants" ->
            {<<"meeting_id", "str", TRUE>>, <<"participants", "json", TRUE>>}
      [] tool = "remove_participants" ->
            {<<"meeting_id", "str", TRUE>>, <<"participant_ids", "ids", TRUE>>}
      [] tool = "list_participants" ->
            {<<"meeting_id", "str", TRUE>>, <<"joinedBefore", "str", FALSE>>,
             <<"joinedAfter", "str", FALSE>>, <<"max", "int", FALSE>>}
      [] tool = "list_spaces" ->
            {<<"teamId", "str", FALSE>>, <<"type", "str", FALSE>>,
             <<"sortBy", "str", FALSE>>, <<"max", "int", FALSE>>}
      [] tool = "get_messages" ->
            {<<"roomId", "str", TRUE>>, <<"mentionedPeople", "str", FALSE>>,
             <<"before", "str", FALSE>>, <<"beforeMessage", "str", FALSE>>,
             <<"max", "int", FALSE>>}
      [] tool = "send_message" ->
            {<<"roomId", "str", FALSE>>, <<"toPersonId", "str", FALSE>>,
             <<"toPersonEmail", "str", FALSE>>, <<"text", "str", FALSE>>,
             <<"markdown", "str", FALSE>>, <<"html", "str", FALSE>>,
             <<"files", "json", FALSE>>}
      [] tool = "create_space" ->
            {<<"title", "str", TRUE>>, <<"teamId", "str", FALSE>>,
             <<"classificationId", "str", FALSE>>, <<"isLocked", "bool", FALSE>>,
             <<"isPublic", "bool", FALSE>>, <<"description", "str", FALSE>>}
      [] tool = "add_member_to_space" ->
            {<<"roomId", "str", TRUE>>, <<"personId", "str", FALSE>>,
             <<"personEmail", "str", FALSE>>, <<"isModerator", "bool", FALSE>>}
      [] tool = "_make_request" ->
            {<<"method", "method", TRUE>>, <<"endpoint", "endpoint", TRUE>>,
             <<"params", "params", FALSE>>, <<"data", "data", FALSE>>}

PIds == {"p1", "p2"}
IdSeqs(n) == UNION {[1..k -> PIds] : k \in 0..n}

\* JSON-array-encoded argument texts: the empty string, a truncated array,
\* a scalar, and the arrays of at most n identifiers.
JsonTexts(n) ==
    {PyStr(<<>>), PyStr(<<"[", "p1">>), PyStr(<<"7">>)}
        \cup {PyStr(ArrayText(ids)) : ids \in IdSeqs(n)}

Methods ==
    {GET, POST, PUT, DELETE, <<"g", "e", "t">>,
     <<"D", "e", "l", "e", "t", "e">>, <<"P", "A", "T", "C", "H">>, <<>>}

\* The values a caller supplies for a parameter of the type; `n` bounds the
\* identifier list of remove_participants.
Supplied(type, required, n) ==
    CASE type = "str" ->
            IF required THEN {PyStr(<<"m1">>)} ELSE {PyStr(<<>>), PyStr(<<"v">>)}
      [] type = "bool" -> {PyBool(FALSE), PyBool(TRUE)}
      [] type = "int" -> {PyInt(0), PyInt(5)}
      [] type = "json" -> JsonTexts(1)
      [] type = "ids" -> JsonTexts(n)
      [] type = "method" -> {PyStr(m) : m \in Methods}
      [] type = "endpoint" -> {PyStr(<<"/", "rooms">>), PyStr(<<"rooms">>)}
      [] type = "params" -> {EmptyDict, DictSet(EmptyDict, "max", PyInt(5))}
      [] type = "data" -> {DictSet(EmptyDict, "title", PyStr(<<"v">>))}

RECURSIVE Assign(_, _)
\* The assignments of supplied values to the parameters ps.
Assign(ps, n) ==
    IF ps = {} THEN {<<>>}
    ELSE LET q == CHOOSE x \in ps : TRUE
         IN  {(q[1] :> v) @@ f : v \in Supplied(q[2], q[3], n),
                                 f \in Assign(ps \ {q}, n)}

\* The argument records of a tool's invocations: every required parameter
\* supplied, at most `cap` optional ones supplied, the others None.
ArgSpace(tool, cap, n) ==
    LET req == {q \in ToolParams(tool) : q[3]}
        opt == ToolParams(tool) \ req
    IN  UNION {{r @@ f @@ [name \in {q[1] : q \in opt \ S} |-> None] :
                    r \in Assign(req, n), f \in Assign(S, n)} :
               S \in {T \in SUBSET opt : Cardinality(T) <= cap}}

(* ------------------------------- state ------------------------------- *)
VARIABLES
    env,        \* os.getenv("WEBEX_ACCESS_TOKEN"): None or a string
    webex_api,  \* the module global: 0 for None, else an index into insts
    insts,      \* the WebexAPI instances constructed so far, in order
    inv,        \* the invocation each slot of the runtime is running
    load        \* what the runtime dispatches: slots, argument bounds

vars == <<env, webex_api, insts, inv, load>>

Procs == 1..NProcs

\* One invocation at a time of any tool or of the client, with up to
\* MaxSupplied optional arguments and MaxIds identifiers; or NProcs
\* concurrent invocations of three tools (one plain, one that catches, one
\* that loops) with their required arguments only.
Workloads ==
    {[slots |-> {1}, tools |-> Tools \cup {"_make_request"},
      cap |-> MaxSupplied, ids |-> MaxIds],
     [slots |-> Procs,
      tools |-> {"list_meetings", "get_meeting_transcript", "remove_participants"},
      cap |-> 0, ids |-> 1]}

\* pc: idle, await (suspended at an outbound call), done (returned or
\* raised).  webex: the handle get_webex_api returned, 0 before.  cur: the
\* request _make_request is performing.  todo: the requests still to make.
\* calls: the outbound HTTP calls issued, in order.  answers: what the
\* transport answered them with.  got: what _make_request last returned or
\* raised.  result: what the invocation returned or raised.
Idle ==
    [pc |-> "idle", tool |-> "", args |-> <<>>, webex |-> 0, cur |-> None,
     todo |-> <<>>, calls |-> <<>>, answers |-> <<>>, got |-> [k |-> "none"],
     result |-> None]

\* The process after start-up: run as __main__ (the credential was checked
\* and the global instance constructed), or imported by the runtime (the
\* instance is constructed lazily by get_webex_api).
Init ==
    /\ load \in Workloads
    /\ \/ /\ env = PyStr(<<"tok">>)
          /\ insts = <<WebexAPI(env)>>
          /\ webex_api = 1
       \/ /\ env \in {None, PyStr(<<>>), PyStr(<<"tok">>)}
          /\ insts = <<>>
          /\ webex_api = 0
    /\ inv = [p \in Procs |-> Idle]

\* The invocation `rec` goes on after its previous request returned
\* `value`: the next request of its list is put to _make_request, or the
\* tool returns.
Proceed(rec, self, value) ==
    IF rec.todo = <<>>
    THEN [rec EXCEPT !.pc = "done", !.cur = None,
                     !.result = ToolReturn(rec.tool, rec.args, value)]
    ELSE LET r == Head(rec.todo)
             s == make_request_send(self, r.method, r.endpoint, r.params, r.data)
         IN  IF s.k = "raise"
             THEN [rec EXCEPT !.pc = "done", !.cur = None,
                              !.got = [k |-> "raise", exc |-> s.exc],
                              !.result = ToolExcept(rec.tool, s.exc)]
             ELSE [rec EXCEPT !.pc = "await", !.cur = r,
                              !.todo = Tail(rec.todo),
                              !.calls = Append(@, s.call)]

\* Invoke with the request of send_message and add_member_to_space sent
\* before their arguments are validated.
Invoke_call_first(p, tool, a) ==
    /\ LET g == get_webex_api(webex_api, insts, env)
           rec == [Idle EXCEPT !.tool = tool, !.args = a]
       IN  IF g.k = "raise"
           THEN /\ inv' = [inv EXCEPT ![p] =
                            [rec EXCEPT !.pc = "done", !.result = Raise(g.exc)]]
                /\ UNCHANGED <<webex_api, insts>>
           ELSE /\ webex_api' = g.api
                /\ insts' = g.insts
                /\ LET st == ToolStart(tool, a)
                       got == [rec EXCEPT !.webex = g.api]
                       early == make_request_send(g.insts[g.api], POST,
                                    IF tool = "send_message"
                                    THEN <<"/", "messages">>
                                    ELSE <<"/", "memberships">>,
                                    None, EmptyDict)
                   IN  inv' = [inv EXCEPT ![p] =
                         CASE st.k = "ret" ->
                                [got EXCEPT !.pc = "done", !.result = Return(st.v),
                                            !.calls =
                                                IF tool \in {"send_message",
                                                             "add_member_to_space"}
                                                THEN <<early.call>> ELSE <<>>]
                           [] st.k = "raise" ->
                                [got EXCEPT !.pc = "done", !.result = Raise(st.exc)]
                           [] st.k = "reqs" ->
                                Proceed([got EXCEPT !.todo = st.reqs],
                                        g.insts[g.api], None)]
    /\ UNCHANGED <<env, load>>

\* The runtime dispatches tool(args) on slot p; the tool runs to its first
\* await or to its end.
Invoke(p, tool, a) ==
    /\ LET g == get_webex_api(webex_api, insts, env)
           rec == [Idle EXCEPT !.tool = tool, !.args = a]
       IN  IF g.k = "raise"
           THEN /\ inv' = [inv EXCEPT ![p] =
                            [rec EXCEPT !.pc = "done", !.result = Raise(g.exc)]]
                /\ UNCHANGED <<webex_api, insts>>
           ELSE /\ webex_api' = g.api
                /\ insts' = g.insts
                /\ LET st == ToolStart(tool, a)
                       got == [rec EXCEPT !.webex = g.api]
                   IN  inv' = [inv EXCEPT ![p] =
                         CASE st.k = "ret" ->
                                [got EXCEPT !.pc = "done", !.result = Return(st.v)]
                           [] st.k = "raise" ->
                                [got EXCEPT !.pc = "done", !.result = Raise(st.exc)]
                           [] st.k = "reqs" ->
                                Proceed([got EXCEPT !.todo = st.reqs],
                                        g.insts[g.api], None)]
    /\ UNCHANGED <<env, load>>

\* A slot of the workload is free for the next invocation.
Free(p) == p \in load.slots /\ inv[p].pc = "idle"

CallTool(p) ==
    /\ Free(p)
    /\ \E tool \in Tools \cap load.tools : \E a \in ArgSpace(tool, load.cap, load.ids) :
            Invoke(p, tool, a)

CallClient(p) ==
    /\ Free(p)
    /\ "_make_request" \in load.tools
    /\ \E a \in ArgSpace("_make_request", load.cap, load.ids) :
            Invoke(p, "_make_request", a)

\* Respond with one retry of a failed call.
Respond_retry(p) ==
    /\ inv[p].pc = "await"
    /\ \E resp \in Responses :
        LET r == make_request_result(resp)
            rec == [inv[p] EXCEPT !.answers = Append(@, resp), !.got = r]
        IN  inv' = [inv EXCEPT ![p] =
                IF r.k = "raise"
                THEN IF Len(rec.calls) < 2
                     THEN [rec EXCEPT !.calls = Append(@, Last(@))]
                     ELSE [rec EXCEPT !.pc = "done", !.cur = None,
                                      !.result = ToolExcept(rec.tool, r.exc)]
                ELSE Proceed(rec, insts[rec.webex], r.v)]
    /\ UNCHANGED <<env, webex_api, insts, load>>

\* The transport answers the call slot p awaits; _make_request returns or
\* raises, and the tool goes on.
Respond(p) ==
    /\ inv[p].pc = "await"
    /\ \E resp \in Responses :
        LET r == make_request_result(resp)
            rec == [inv[p] EXCEPT !.answers = Append(@, resp), !.got = r]
        IN  inv' = [inv EXCEPT ![p] =
                IF r.k = "raise"
                THEN [rec EXCEPT !.pc = "done", !.cur = None,
                                 !.result = ToolExcept(rec.tool, r.exc)]
                ELSE Proceed(rec, insts[rec.webex], r.v)]
    /\ UNCHANGED <<env, webex_api, insts, load>>

\* The runtime takes the result; the slot is free again.
Complete(p) ==
    /\ inv[p].pc = "done"
    /\ inv' = [inv EXCEPT ![p] = Idle]
    /\ UNCHANGED <<env, webex_api, insts, load>>

Next == \E p \in Procs : CallTool(p) \/ CallClient(p) \/ Respond(p) \/ Complete(p)

Spec == Init /\ [][Next]_vars

(* ------------------------------ claims ------------------------------ *)
Running(p) == inv[p].pc # "idle"

\* The invocation obtained the client handle and runs the tool's own logic.
\* (Imported without WEBEX_ACCESS_TOKEN, get_webex_api raises ValueError at
\* the tool's first line; the claims about what a tool does are about the
\* invocations that get past it.)
Entered(p) == Running(p) /\ inv[p].webex # 0

\* The query string a parameter mapping makes: none for None and for {}.
QueryOf(params) == IF IsNone(params) THEN <<>> ELSE params.v

\* C1: every request put to the client with method GET or DELETE goes out
\* with the caller's query_params as its query string (delete_meeting's
\* sendEmail included).
C1_QueryAttached ==
    \A p \in Procs :
        (inv[p].pc = "await" /\ Upper(inv[p].cur.method) \in {GET, DELETE})
            => QueryOf(Last(inv[p].calls).params) = QueryOf(inv[p].cur.params)

\* The identifiers remove_participants was handed, when the argument
\* parses to a list.
IdsOf(p) == JsonLoads(inv[p].args.participant_ids.v).v.v
ParsesToList(p) ==
    /\ Entered(p)
    /\ inv[p].tool = "remove_participants"
    /\ JsonLoads(inv[p].args.participant_ids.v).ok
    /\ JsonLoads(inv[p].args.participant_ids.v).v.t = "list"

RemovalUrl(p, i) ==
    <<"https://webexapis.com/v1", "/", "meetings", "/">>
        \o inv[p].args.meeting_id.v \o <<"/", "invitees", "/">> \o IdsOf(p)[i].v

Succeeded(resp) == make_request_result(resp).k = "value"

C2_State ==
    \A p \in Procs : ParsesToList(p) =>
        LET n == Len(IdsOf(p))
            c == inv[p].calls
            r == inv[p].answers
        IN  \* one DELETE per element, in list order, and nothing else
            /\ Len(c) <= n
            /\ \A i \in 1..Len(c) : c[i].verb = DELETE /\ c[i].url = RemovalUrl(p, i)
            \* a call is issued only once those before it have succeeded
            /\ Len(r) = (IF inv[p].pc = "await" THEN Len(c) - 1 ELSE Len(c))
            /\ \A i \in 1..Len(r) : i < Len(c) => Succeeded(r[i])
            /\ inv[p].pc = "done" =>
                 IF Len(r) > 0 /\ ~Succeeded(Last(r))
                 THEN \* call k = Len(c) failed: the failure propagates
                      /\ inv[p].result.t = "raise"
                      /\ inv[p].result.exc = make_request_result(Last(r)).exc
                 ELSE /\ Len(c) = n
                      /\ inv[p].result
                           = Return(PyStr(<<"Participants removed successfully">>))

\* Once an invocation has returned or raised it issues no call.
C2_Step ==
    \A p \in Procs :
        inv[p].pc = "done" => (inv'[p].pc = "idle" \/ inv'[p] = inv[p])

\* C2: remove_participants issues one DELETE per identifier in list order;
\* when call k fails the calls before it have completed, no later call and
\* no compensating call is issued, and the failure propagates to the caller.
C2_RemoveInOrder == [](C2_State) /\ [][C2_Step]_vars

\* Three identifiers, the second call failed: one call completed, the
\* third was never issued.
C2_Witness ==
    \E p \in Procs :
        /\ ParsesToList(p)
        /\ Len(IdsOf(p)) = 3
        /\ IdsOf(p)[1] # IdsOf(p)[2]
        /\ inv[p].pc = "done"
        /\ Len(inv[p].calls) = 2
        /\ inv[p].result.t = "raise"

IsHttpFailure(resp) ==
    resp.k = "response" /\ resp.status >= 400 /\ resp.status <= 599

InMessage(tok, msg) == \E i \in 1..Len(msg) : msg[i] = tok

\* C3: when the platform answers a request with a 4xx or 5xx status the
\* client's request raises its HTTP failure ("API request failed: ..."),
\* whose message carries the status and reason, and returns no value: a
\* direct caller and every tool without a handler of its own see it raised.
C3_HttpErrorRaises ==
    \A p \in Procs :
        (Running(p) /\ inv[p].answers # <<>> /\ IsHttpFailure(Last(inv[p].answers)))
            => /\ inv[p].pc = "done"
               /\ inv[p].got.k = "raise"
               /\ inv[p].got.exc.msg[1] = "API request failed: "
               /\ InMessage(StatusText(Last(inv[p].answers).status),
                            inv[p].got.exc.msg)
               /\ inv[p].tool # "get_meeting_transcript"
                    => inv[p].result = Raise(inv[p].got.exc)
               /\ inv[p].result.t = "return"
                    => /\ inv[p].tool = "get_meeting_transcript"
                       /\ inv[p].result.v.v[1] = "Transcript not available: "

\* A direct request of the client answered 404.
C3_Witness ==
    \E p \in Procs :
        /\ inv[p].tool = "_make_request"
        /\ inv[p].pc = "done"
        /\ inv[p].answers # <<>>
        /\ Last(inv[p].answers).k = "response"
        /\ Last(inv[p].answers).status = 404
        /\ inv[p].result.t = "raise"

JsonTools ==
    {"create_meeting", "add_participants", "remove_participants", "send_message"}

JsonArg(p) ==
    CASE inv[p].tool = "create_meeting" -> inv[p].args.invitees
      [] inv[p].tool = "add_participants" -> inv[p].args.participants
      [] inv[p].tool = "remove_participants" -> inv[p].args.participant_ids
      [] inv[p].tool = "send_message" -> inv[p].args.files

InvalidJsonError(tool) ==
    CASE tool = "create_meeting" -> PyStr(<<"Error: Invalid JSON format for invitees">>)
      [] tool = "add_participants" ->
            PyStr(<<"Error: Invalid JSON format for participants">>)
      [] tool = "remove_participants" ->
            PyStr(<<"Error: Invalid JSON format for participant IDs">>)
      [] tool = "send_message" -> PyStr(<<"Error: Invalid JSON format for files">>)

\* The invocation was handed a JSON-array argument that is not JSON.
InvalidJsonSupplied(p) ==
    /\ Running(p)
    /\ inv[p].tool \in JsonTools
    /\ ~IsNone(JsonArg(p))
    /\ ~JsonLoads(JsonArg(p).v).ok

ReturnedInvalidJson(p) ==
    /\ inv[p].pc = "done"
    /\ inv[p].result = Return(InvalidJsonError(inv[p].tool))
    /\ inv[p].calls = <<>>

\* C4 as claimed: a syntactically invalid JSON string for invitees,
\* participants, participant_ids or files makes the tool return its
\* "Invalid JSON format for ..." string, without raising and without a call.
C4_InvalidJsonAlways ==
    \A p \in Procs :
        (InvalidJsonSupplied(p) /\ Entered(p)) => ReturnedInvalidJson(p)

HasDestination(a) == PyAny(<<a.roomId, a.toPersonId, a.toPersonEmail>>)
HasContent(a) == PyAny(<<a.text, a.markdown, a.html>>)

\* C4 as amended: so it is for a non-empty invitees or files text (an empty
\* one counts as not supplied), and for send_message once a destination and
\* a content are given.
C4_InvalidJsonReturned ==
    \A p \in Procs :
        ( /\ InvalidJsonSupplied(p)
          /\ Entered(p)
          /\ inv[p].tool \in {"create_meeting", "send_message"} => Truthy(JsonArg(p))
          /\ inv[p].tool = "send_message"
                => HasDestination(inv[p].args) /\ HasContent(inv[p].args) )
            => ReturnedInvalidJson(p)

\* send_message with a destination, a content and a truncated files array.
C4_Witness ==
    \E p \in Procs :
        /\ inv[p].tool = "send_message"
        /\ InvalidJsonSupplied(p)
        /\ Truthy(JsonArg(p))
        /\ HasDestination(inv[p].args) /\ HasContent(inv[p].args)
        /\ ReturnedInvalidJson(p)

DestinationError == PyStr(<<"Error: Must specify roomId, toPersonId, or toPersonEmail">>)
ContentError == PyStr(<<"Error: Must specify text, markdown, or html content">>)

\* C5: send_message returns the destination error when roomId, toPersonId
\* and toPersonEmail are all absent (or empty), and the content error when
\* text, markdown and html are all absent (or empty) whichever destination
\* is given; it issues a call only with a destination and a content.
C5_MustSpecify ==
    \A p \in Procs : (Entered(p) /\ inv[p].tool = "send_message") =>
        LET a == inv[p].args
        IN  /\ inv[p].calls = <<>> \/ (HasDestination(a) /\ HasContent(a))
            /\ ~HasDestination(a)
                => inv[p].pc = "done" /\ inv[p].result = Return(DestinationError)
            /\ (HasDestination(a) /\ ~HasContent(a))
                => inv[p].pc = "done" /\ inv[p].result = Return(ContentError)

\* A destination (toPersonEmail) and no content.
C5_Witness ==
    \E p \in Procs :
        /\ inv[p].tool = "send_message"
        /\ HasDestination(inv[p].args)
        /\ ~IsNone(inv[p].args.toPersonEmail)
        /\ ~HasContent(inv[p].args)
        /\ inv[p].result = Return(ContentError)

\* C6: whatever failure the request of get_meeting_transcript ends in
\* (transport error, timeout, 4xx/5xx, unreadable body), the tool returns
\* "Transcript not available: ..." with the failure's message, and raises
\* nothing.
C6_TranscriptNeverRaises ==
    \A p \in Procs :
        (Entered(p) /\ inv[p].tool = "get_meeting_transcript") =>
            /\ inv[p].pc = "done" => inv[p].result.t = "return"
            /\ inv[p].got.k = "raise" =>
                /\ inv[p].pc = "done"
                /\ inv[p].result = Return(PyStr(<<"Transcript not available: ">>
                                                   \o inv[p].got.exc.msg))

\* The transcript request timed out.
C6_Witness ==
    \E p \in Procs :
        /\ inv[p].tool = "get_meeting_transcript"
        /\ inv[p].pc = "done"
        /\ inv[p].answers # <<>>
        /\ Last(inv[p].answers).k = "error"
        /\ inv[p].result.t = "return"

UnsupportedRaised(p) ==
    /\ inv[p].pc = "done"
    /\ inv[p].calls = <<>>
    /\ inv[p].result.t = "raise"
    /\ inv[p].result.exc.msg
         = <<"Request failed: ", "Unsupported HTTP method: ">> \o inv[p].args.method.v

ClientCalled(p) == Entered(p) /\ inv[p].tool = "_make_request"

\* C7 as claimed: the client's request accepts exactly GET, POST, PUT and
\* DELETE; any other method value fails as unsupported with no call issued.
C7_ExactMethods ==
    \A p \in Procs : ClientCalled(p) =>
        IF inv[p].args.method.v \in {GET, POST, PUT, DELETE}
        THEN Len(inv[p].calls) = 1
        ELSE UnsupportedRaised(p)

\* C7 as amended: the method is compared after upper-casing; a method that
\* is none of the four in any letter case fails as unsupported, no call
\* issued, and one that is goes out as a call with the upper-case verb.
C7_MethodsAnyCase ==
    \A p \in Procs : ClientCalled(p) =>
        IF Supported(inv[p].args.method.v)
        THEN /\ Len(inv[p].calls) = 1
             /\ inv[p].calls[1].verb = Upper(inv[p].args.method.v)
        ELSE UnsupportedRaised(p)

\* PATCH was refused, no call issued.
C7_Witness ==
    \E p \in Procs :
        /\ ClientCalled(p)
        /\ inv[p].args.method.v = <<"P", "A", "T", "C", "H">>
        /\ UnsupportedRaised(p)

\* The invocation's argument validation ran and passed.
PassedValidation(p) ==
    /\ Entered(p)
    /\ inv[p].tool \in Tools
    /\ ToolStart(inv[p].tool, inv[p].args).k = "reqs"

\* C8: a tool invocation other than remove_participants whose argument
\* validation passed issues exactly one outbound call, answered at most
\* once: after a failure no call is repeated and no second call is made.
C8_ExactlyOneCall ==
    \A p \in Procs :
        (PassedValidation(p) /\ inv[p].tool # "remove_participants") =>
            /\ Len(inv[p].calls) = 1
            /\ Len(inv[p].answers) = (IF inv[p].pc = "done" THEN 1 ELSE 0)

\* A tool's only call failed and the tool has raised.
C8_Witness ==
    \E p \in Procs :
        /\ PassedValidation(p)
        /\ inv[p].tool = "create_meeting"
        /\ inv[p].pc = "done"
        /\ inv[p].result.t = "raise"
        /\ Len(inv[p].calls) = 1

C9_State ==
    /\ Len(insts) <= 1
    /\ webex_api \in {0} \cup DOMAIN insts
    /\ \A i \in DOMAIN insts : insts[i] = WebexAPI(env)
    /\ \A p \in Procs : Entered(p) => inv[p].webex = webex_api

C9_Step ==
    /\ webex_api # 0 => webex_api' = webex_api
    /\ \A i \in DOMAIN insts : i \in DOMAIN insts' /\ insts'[i] = insts[i]

\* C9: under any interleaving of invocations at most one WebexAPI instance
\* is ever constructed, every get_webex_api returns that instance, and once
\* set the handle is neither replaced nor changed.
C9_OneHandle == [](C9_State) /\ [][C9_Step]_vars

\* Two invocations suspended at their calls at once, on the same handle.
C9_Witness ==
    /\ Len(insts) = 1
    /\ \E p, q \in Procs :
        /\ p # q
        /\ inv[p].pc = "await" /\ inv[q].pc = "await"
        /\ inv[p].webex = 1 /\ inv[q].webex = 1

\* The key a tool sends a parameter under.
KeyOf(tool, param) ==
    CASE param = "from_date" -> "from"
      [] param = "to_date" -> "to"
      [] tool = "list_recordings" /\ param = "meeting_id" -> "meetingId"
      [] OTHER -> param

Keys(x) == IF x.t = "dict" THEN DOMAIN x.v ELSE {}

\* The optional parameters the caller left unsupplied, as keys.
UnsuppliedKeys(p) ==
    {KeyOf(inv[p].tool, q[1]) :
        q \in {z \in ToolParams(inv[p].tool) : ~z[3] /\ IsNone(inv[p].args[z[1]])}}

\* C10: no optional argument the caller left unsupplied is a key of the
\* query parameters or of the body of any call a tool issues, nor of the
\* request the tool hands the client.
C10_UnsuppliedOmitted ==
    \A p \in Procs : (Running(p) /\ inv[p].tool \in Tools) =>
        /\ \A i \in 1..Len(inv[p].calls) :
              UnsuppliedKeys(p)
                \cap (Keys(inv[p].calls[i].params) \cup Keys(inv[p].calls[i].json)) = {}
        /\ inv[p].pc = "await" =>
              UnsuppliedKeys(p)
                \cap (Keys(inv[p].cur.params) \cup Keys(inv[p].cur.data)) = {}

\* create_space with teamId given and the other options left out: the body
\* has title and teamId only.
C10_Witness ==
    \E p \in Procs :
        /\ inv[p].tool = "create_space"
        /\ inv[p].pc = "await"
        /\ Truthy(inv[p].args.teamId)
        /\ IsNone(inv[p].args.description)
        /\ Keys(Last(inv[p].calls).json) = {"title", "teamId"}

MemberError == PyStr(<<"Error: Must specify personId or personEmail">>)

\* An invocation that ended by returning a "Must specify ..." error of its tool.
ReturnedMustSpecify(p) ==
    /\ inv[p].pc = "done"
    /\ \/ /\ inv[p].tool = "send_message"
          /\ inv[p].result \in {Return(DestinationError), Return(ContentError)}
       \/ /\ inv[p].tool = "add_member_to_space"
          /\ inv[p].result = Return(MemberError)

\* C11: whenever send_message returns one of its "Must specify ..." errors,
\* or add_member_to_space returns "Must specify personId or personEmail",
\* no outbound HTTP call was issued (and none answered) in that invocation.
C11_ValidationFirst ==
    \A p \in Procs : ReturnedMustSpecify(p) =>
        /\ inv[p].calls = <<>>
        /\ inv[p].answers = <<>>

\* add_member_to_space with a roomId and neither personId nor personEmail
\* has returned its error.
C11_Witness ==
    \E p \in Procs :
        /\ inv[p].tool = "add_member_to_space"
        /\ IsNone(inv[p].args.personId) /\ IsNone(inv[p].args.personEmail)
        /\ Truthy(inv[p].args.roomId)
        /\ ReturnedMustSpecify(p)

====
